---- MODULE Spec2Model ----
(***************************************************************************)
(* Model of crypto_news.py: one run of the dashboard script.               *)
(*                                                                         *)
(*   configuration check -> limit/language input -> NewsQuery ->           *)
(*   fetch_crypto_news (with mock fallback) -> top card -> other cards ->  *)
(*   analyze_market -> summary                                             *)
(*                                                                         *)
(* Text is modelled as a sequence of tokens.  Dates and the limit input    *)
(* are sequences of one-character tokens, so that slicing, parsing and     *)
(* formatting work on characters; fixed texts whose inside is never        *)
(* inspected (titles, the instruction template) are single tokens.         *)
(*                                                                         *)
(* JSON values are tagged records: the field k is the Python type.  A      *)
(* dict is a record whose other fields are its keys; a key whose value is  *)
(* Absent is a key the dict does not have.                                 *)
(***************************************************************************)
EXTENDS Integers, Sequences, FiniteSets, TLC

\* ------------------------------------------------------------------------
\* Bounds
\* ------------------------------------------------------------------------
MaxArticles == 3
MaxTextLen == 3

\* ------------------------------------------------------------------------
\* Small helpers
\* ------------------------------------------------------------------------
Min(a, b) == IF a < b THEN a ELSE b
Max(a, b) == IF a > b THEN a ELSE b

RECURSIVE Concat(_)
Concat(ss) == IF ss = <<>> THEN <<>> ELSE Head(ss) \o Concat(Tail(ss))

SeqsUpTo(S, n) == UNION { [1..m -> S] : m \in 0..n }

\* ------------------------------------------------------------------------
\* JSON values (what response.json() can produce)
\* ------------------------------------------------------------------------
Absent == [k |-> "absent"]
JNull == [k |-> "null"]
JStr(s) == [k |-> "str", s |-> s]
JNum(n) == [k |-> "num", n |-> n]
JList(xs) == [k |-> "list", items |-> xs]
EmptyDict == [k |-> "dict"]

IsDict(v) == v.k = "dict"
IsList(v) == v.k = "list"
IsStr(v) == v.k = "str"

\* the keys a dict has
DictKeys(d) == { key \in DOMAIN d \ {"k"} : d[key].k # "absent" }

\* dict.get(key, default)
Get(d, key, default) == IF key \in DictKeys(d) THEN d[key] ELSE default

\* Python truthiness (`if x:` / `not x`)
Truthy(v) ==
    CASE v.k = "null" -> FALSE
      [] v.k = "str" -> v.s # <<>>
      [] v.k = "num" -> v.n # 0
      [] v.k = "list" -> v.items # <<>>
      [] v.k = "dict" -> DictKeys(v) # {}
      [] OTHER -> FALSE

\* seq[-n:] in place of seq[:n]
PySliceTail(xs, n) ==
    IF n >= Len(xs) THEN xs ELSE SubSeq(xs, Len(xs) - n + 1, Len(xs))

\* seq[:n]
PySlice(xs, n) ==
    IF n >= 0 THEN SubSeq(xs, 1, Min(n, Len(xs)))
    ELSE SubSeq(xs, 1, Max(Len(xs) + n, 0))

\* ------------------------------------------------------------------------
\* Language, NewsQuery
\* ------------------------------------------------------------------------
Language == [EN |-> "en", ZH |-> "zh"]

NewsQuery(language, limit, page) ==
    [language |-> language, limit |-> limit, page |-> page]

\* ------------------------------------------------------------------------
\* get_mock_articles
\* ------------------------------------------------------------------------
Article(title, description, pubDate, source, link) ==
    [k |-> "dict", title |-> title, description |-> description,
     pubDate |-> pubDate, source |-> source, link |-> link]

Source(name) == [k |-> "dict", name |-> name]

MockDate1 == <<"2","0","2","5","-","1","1","-","1","3","T",
               "1","2",":","0","0",":","0","0",".","0","0","0","Z">>
MockDate2 == <<"2","0","2","5","-","1","1","-","1","2","T",
               "0","9",":","3","0",":","0","0",".","0","0","0","Z">>

get_mock_articles ==
    << Article(JStr(<<"Bitcoin Reaches New High">>),
               JStr(<<"Bitcoin price surged 5% today as market sentiment turns bullish...">>),
               JStr(MockDate1),
               Source(JStr(<<"CryptoNews">>)),
               JStr(<<"https://example.com/bitcoin">>)),
       Article(JStr(<<"Ethereum Merge Update">>),
               JStr(<<"Ethereum upgrade drives adoption and network efficiency...">>),
               JStr(MockDate2),
               Source(JStr(<<"CoinTelegraph">>)),
               JStr(<<"https://example.com/ethereum">>)) >>

\* ------------------------------------------------------------------------
\* fetch_crypto_news
\* ------------------------------------------------------------------------
\* The provider's answer to the single GET: requests.get raises
\* ("transport_error"), response.json() raises ("json_error"), or a body.
ProviderRaises(p) == p.outcome \in {"transport_error", "json_error"}

ExtractArticles(data) ==
    IF IsDict(data)
    THEN IF IsDict(Get(data, "data", JNull))
         THEN Get(Get(data, "data", EmptyDict), "articles", JList(<<>>))
         ELSE JList(<<>>)
    ELSE JList(<<>>)

\* fetch_crypto_news with the limit applied to the mock list too
fetch_truncates_mock(q, p) ==
    IF ProviderRaises(p)
    THEN [ret |-> PySlice(get_mock_articles, q.limit),
          ui |-> <<[ev |-> "st.error", what |-> "fetch"]>>]
    ELSE LET arts == ExtractArticles(p.body) IN
         IF ~Truthy(arts) \/ ~IsList(arts)
         THEN [ret |-> PySlice(get_mock_articles, q.limit),
               ui |-> <<[ev |-> "st.warning", what |-> "mock"]>>]
         ELSE [ret |-> PySlice(arts.items, q.limit), ui |-> <<>>]

\* fetch_crypto_news returning the provider's list whole
fetch_without_slice(q, p) ==
    IF ProviderRaises(p)
    THEN [ret |-> get_mock_articles, ui |-> <<[ev |-> "st.error", what |-> "fetch"]>>]
    ELSE LET arts == ExtractArticles(p.body) IN
         IF ~Truthy(arts) \/ ~IsList(arts)
         THEN [ret |-> get_mock_articles, ui |-> <<[ev |-> "st.warning", what |-> "mock"]>>]
         ELSE [ret |-> arts.items, ui |-> <<>>]

\* fetch_crypto_news returning an empty list where it has no articles
fetch_returns_empty(q, p) ==
    IF ProviderRaises(p)
    THEN [ret |-> <<>>, ui |-> <<[ev |-> "st.error", what |-> "fetch"]>>]
    ELSE LET arts == ExtractArticles(p.body) IN
         IF ~Truthy(arts) \/ ~IsList(arts)
         THEN [ret |-> <<>>, ui |-> <<[ev |-> "st.warning", what |-> "mock"]>>]
         ELSE [ret |-> PySlice(arts.items, q.limit), ui |-> <<>>]

\* result: the returned list, and the st.error / st.warning it shows
fetch_crypto_news(q, p) ==
    IF ProviderRaises(p)
    THEN [ret |-> get_mock_articles, ui |-> <<[ev |-> "st.error", what |-> "fetch"]>>]
    ELSE LET arts == ExtractArticles(p.body) IN
         IF ~Truthy(arts) \/ ~IsList(arts)
         THEN [ret |-> get_mock_articles, ui |-> <<[ev |-> "st.warning", what |-> "mock"]>>]
         ELSE [ret |-> PySlice(arts.items, q.limit), ui |-> <<>>]

GetRequest(q) ==
    [ev |-> "GET",
     params |-> [items |-> q.limit, page |-> q.page,
                 language |-> Language[q.language]]]

\* ------------------------------------------------------------------------
\* int(limit) on the text of the "Jumlah berita" field
\* ------------------------------------------------------------------------
Digits == {"0", "1", "2", "3", "4", "5", "6", "7", "8", "9"}

DigitVal == [c \in Digits |->
    CASE c = "0" -> 0 [] c = "1" -> 1 [] c = "2" -> 2 [] c = "3" -> 3
      [] c = "4" -> 4 [] c = "5" -> 5 [] c = "6" -> 6 [] c = "7" -> 7
      [] c = "8" -> 8 [] c = "9" -> 9]

Whitespace == {" ", "\n", "\t"}

\* str.strip()
RECURSIVE LStrip(_)
LStrip(s) == IF s # <<>> /\ Head(s) \in Whitespace THEN LStrip(Tail(s)) ELSE s
RECURSIVE RStrip(_)
RStrip(s) ==
    IF s # <<>> /\ s[Len(s)] \in Whitespace
    THEN RStrip(SubSeq(s, 1, Len(s) - 1)) ELSE s
Strip(s) == RStrip(LStrip(s))

\* digits with single underscores between them: the value, or -1
RECURSIVE DigitRun(_, _, _)
DigitRun(s, acc, prevDigit) ==
    IF s = <<>> THEN (IF prevDigit THEN acc ELSE -1)
    ELSE IF Head(s) \in Digits
         THEN DigitRun(Tail(s), 10 * acc + DigitVal[Head(s)], TRUE)
    ELSE IF Head(s) = "_" /\ prevDigit
         THEN DigitRun(Tail(s), acc, FALSE)
    ELSE -1

\* int(text): ok = FALSE is ValueError
PyInt(text) ==
    LET t == Strip(text)
        signed == t # <<>> /\ Head(t) \in {"+", "-"}
        body == IF signed THEN Tail(t) ELSE t
        mag == DigitRun(body, 0, FALSE)
    IN IF mag < 0 THEN [ok |-> FALSE, n |-> 0]
       ELSE [ok |-> TRUE,
             n |-> IF signed /\ Head(t) = "-" THEN 0 - mag ELSE mag]

\* ParseLimit with `limit < 0` in place of `limit < 1`
ParseLimitAllowsZero(text) ==
    LET r == PyInt(text) IN
    IF r.ok THEN (IF r.n < 0 THEN 5 ELSE r.n) ELSE 5

\* try: limit = int(limit); if limit < 1: limit = 5; except ValueError: limit = 5
ParseLimit(text) ==
    LET r == PyInt(text) IN
    IF r.ok THEN (IF r.n < 1 THEN 5 ELSE r.n) ELSE 5

\* ------------------------------------------------------------------------
\* datetime.strptime(s, "%Y-%m-%dT%H:%M:%S").strftime("%d %b %Y, %H:%M")
\* ------------------------------------------------------------------------
D(lo, hi) == { c \in Digits : DigitVal[c] \in lo..hi }

\* The regular expression strptime compiles the format into: one group per
\* directive or literal, each group a sequence of alternatives tried in
\* order, each alternative a sequence of character classes.  The expression
\* is compiled with IGNORECASE, so the literal T also matches t.
DirectiveRe ==
    [Y |-> << <<D(0,9), D(0,9), D(0,9), D(0,9)>> >>,
     m |-> << <<{"1"}, D(0,2)>>, <<{"0"}, D(1,9)>>, <<D(1,9)>> >>,
     d |-> << <<{"3"}, D(0,1)>>, <<D(1,2), D(0,9)>>, <<{"0"}, D(1,9)>>,
              <<D(1,9)>>, <<{" "}, D(1,9)>> >>,
     H |-> << <<{"2"}, D(0,3)>>, <<D(0,1), D(0,9)>>, <<D(0,9)>> >>,
     M |-> << <<D(0,5), D(0,9)>>, <<D(0,9)>> >>,
     S |-> << <<{"6"}, D(0,1)>>, <<D(0,5), D(0,9)>>, <<D(0,9)>> >>,
     dash |-> << <<{"-"}>> >>,
     T |-> << <<{"T", "t"}>> >>,
     colon |-> << <<{":"}>> >>]

\* "%Y-%m-%dT%H:%M:%S"
DateFormat ==
    <<"Y", "dash", "m", "dash", "d", "T", "H", "colon", "M", "colon", "S">>

MatchesAlt(alt, s, p) ==
    /\ p + Len(alt) - 1 <= Len(s)
    /\ \A i \in 1..Len(alt) : s[p + i - 1] \in alt[i]

NoMatch == [ok |-> FALSE, ends |-> <<>>]

\* re.match from position p for the groups g.. of the format: the position
\* after each group, with backtracking over the alternatives
RECURSIVE ReMatch(_, _, _, _)
RECURSIVE TryAlts(_, _, _, _, _)
ReMatch(fmt, g, s, p) ==
    IF g > Len(fmt) THEN [ok |-> TRUE, ends |-> <<>>]
    ELSE TryAlts(fmt, g, 1, s, p)
TryAlts(fmt, g, a, s, p) ==
    LET alts == DirectiveRe[fmt[g]] IN
    IF a > Len(alts) THEN NoMatch
    ELSE IF MatchesAlt(alts[a], s, p)
         THEN LET r == ReMatch(fmt, g + 1, s, p + Len(alts[a])) IN
              IF r.ok
              THEN [ok |-> TRUE, ends |-> <<p + Len(alts[a])>> \o r.ends]
              ELSE TryAlts(fmt, g, a + 1, s, p)
         ELSE TryAlts(fmt, g, a + 1, s, p)

IsLeap(y) == (y % 4 = 0 /\ y % 100 # 0) \/ y % 400 = 0

DaysInMonth(y, m) ==
    IF m = 2 THEN (IF IsLeap(y) THEN 29 ELSE 28)
    ELSE IF m \in {4, 6, 9, 11} THEN 30 ELSE 31

\* strptime: ok = FALSE is ValueError (no match, unconverted data remains,
\* or a field datetime() rejects)
strptime(s) ==
    LET r == ReMatch(DateFormat, 1, s, 1) IN
    IF ~r.ok THEN [ok |-> FALSE]
    ELSE IF r.ends[Len(r.ends)] # Len(s) + 1 THEN [ok |-> FALSE]
    ELSE LET field(g) == SubSeq(s, IF g = 1 THEN 1 ELSE r.ends[g - 1],
                                r.ends[g] - 1)
             year == PyInt(field(1)).n
             month == PyInt(field(3)).n
             day == PyInt(field(5)).n
             hour == PyInt(field(7)).n
             minute == PyInt(field(9)).n
             second == PyInt(field(11)).n
         IN IF year < 1 \/ day > DaysInMonth(year, month) \/ second > 59
            THEN [ok |-> FALSE]
            ELSE [ok |-> TRUE, year |-> year, month |-> month, day |-> day,
                  hour |-> hour, minute |-> minute, second |-> second]

DigitChar(n) == CHOOSE c \in Digits : DigitVal[c] = n

Pad2(n) == <<DigitChar(n \div 10), DigitChar(n % 10)>>

RECURSIVE Decimal(_)
Decimal(n) ==
    IF n < 10 THEN <<DigitChar(n)>>
    ELSE Append(Decimal(n \div 10), DigitChar(n % 10))

MonthAbbr ==
    << <<"J","a","n">>, <<"F","e","b">>, <<"M","a","r">>, <<"A","p","r">>,
       <<"M","a","y">>, <<"J","u","n">>, <<"J","u","l">>, <<"A","u","g">>,
       <<"S","e","p">>, <<"O","c","t">>, <<"N","o","v">>, <<"D","e","c">> >>

\* strftime("%d %b %Y, %H:%M")
strftime(dt) ==
    Pad2(dt.day) \o <<" ">> \o MonthAbbr[dt.month] \o <<" ">>
        \o Decimal(dt.year) \o <<",", " ">>
        \o Pad2(dt.hour) \o <<":">> \o Pad2(dt.minute)

\* if pub_date: try: pub_date = strptime(pub_date[:19], ...).strftime(...)
\*              except: pass
\* Slicing or parsing anything but a str raises, which the bare except
\* swallows.
FormatTopDate(pub_date) ==
    IF ~Truthy(pub_date) THEN pub_date
    ELSE IF ~IsStr(pub_date) THEN pub_date
    ELSE LET dt == strptime(PySlice(pub_date.s, 19)) IN
         IF dt.ok THEN JStr(strftime(dt)) ELSE pub_date

\* FormatOtherDate parsing pub_date whole, not pub_date[:19]
FormatOtherDateNoSlice(pub_date) ==
    IF ~Truthy(pub_date) THEN pub_date
    ELSE IF ~IsStr(pub_date) THEN pub_date
    ELSE LET dt == strptime(pub_date.s) IN
         IF dt.ok THEN JStr(strftime(dt)) ELSE pub_date

FormatOtherDate(pub_date) ==
    IF ~Truthy(pub_date) THEN pub_date
    ELSE IF ~IsStr(pub_date) THEN pub_date
    ELSE LET dt == strptime(PySlice(pub_date.s, 19)) IN
         IF dt.ok THEN JStr(strftime(dt)) ELSE pub_date

\* ------------------------------------------------------------------------
\* analyze_market
\* ------------------------------------------------------------------------
\* f"{value}"
FString(v) ==
    CASE v.k = "str" -> v.s
      [] v.k = "null" -> <<"None">>
      [] v.k = "num" -> IF v.n >= 0 THEN Decimal(v.n)
                        ELSE <<"-">> \o Decimal(0 - v.n)
      [] OTHER -> <<"<repr>">>

PromptHead ==
    <<"\n    Berdasarkan berita crypto terbaru berikut, berikan analisis singkat untuk market crypto:\n    - Sentimen pasar (Bullish / Bearish / Netral)\n    - Tren umum (naik / turun / stabil)\n    - Saran singkat (Buy / Hold / Watch)\n    Jawab dengan jelas, mudah dipahami, dan tampilkan dengan format yang rapi dan profesional.\n\n    Berita:\n    ">>
PromptTail == <<"\n    ">>

\* CombinedText with the description left out
RECURSIVE CombinedTextTitlesOnly(_)
CombinedTextTitlesOnly(arts) ==
    IF arts = <<>> THEN <<>>
    ELSE FString(Get(Head(arts), "title", JStr(<<>>))) \o <<"\n", "\n">>
         \o CombinedTextTitlesOnly(Tail(arts))

\* combined_text += f"{art.get('title','')}\n{art.get('description','')}\n\n"
RECURSIVE CombinedText(_)
CombinedText(arts) ==
    IF arts = <<>> THEN <<>>
    ELSE FString(Get(Head(arts), "title", JStr(<<>>))) \o <<"\n">>
         \o FString(Get(Head(arts), "description", JStr(<<>>)))
         \o <<"\n", "\n">> \o CombinedText(Tail(arts))

BuildPrompt(arts) == PromptHead \o CombinedText(arts) \o PromptTail

CompletionRequest(prompt) ==
    [ev |-> "POST", model |-> "gpt-5-nano",
     messages |-> <<[role |-> "user", content |-> prompt]>>]

\* analyze_market with a fallback summary when the completion call fails
analyze_with_fallback(arts, comp) ==
    IF \E n \in 1..Len(arts) : ~IsDict(arts[n])
    THEN [raised |-> TRUE, exc |-> "AttributeError", sent |-> <<>>]
    ELSE LET req == CompletionRequest(BuildPrompt(arts)) IN
         IF comp.kind = "ok"
         THEN [raised |-> FALSE, exc |-> "", sent |-> <<req>>,
               value |-> Strip(comp.content)]
         ELSE [raised |-> FALSE, exc |-> "", sent |-> <<req>>,
               value |-> <<"summary unavailable">>]

\* The completion endpoint's answer: create() raises ("api_error"), the
\* response has no choice, its content is None, or it has a content.
\* Result: whether the call raised, the requests sent, the value returned.
analyze_market(arts, comp) ==
    IF \E n \in 1..Len(arts) : ~IsDict(arts[n])
    THEN [raised |-> TRUE, exc |-> "AttributeError", sent |-> <<>>]
    ELSE LET req == CompletionRequest(BuildPrompt(arts)) IN
         CASE comp.kind = "api_error" ->
                [raised |-> TRUE, exc |-> "APIError", sent |-> <<req>>]
           [] comp.kind = "no_choices" ->
                [raised |-> TRUE, exc |-> "IndexError", sent |-> <<req>>]
           [] comp.kind = "null_content" ->
                [raised |-> TRUE, exc |-> "AttributeError", sent |-> <<req>>]
           [] OTHER ->
                [raised |-> FALSE, exc |-> "", sent |-> <<req>>,
                 value |-> Strip(comp.content)]

\* ------------------------------------------------------------------------
\* State
\* ------------------------------------------------------------------------
VARIABLES
    pc,              \* position of the script
    OPENAI_API_KEY,  \* os.getenv("OPENAI_API_KEY"): None or a str
    NEWS_API_KEY,    \* os.getenv("NEWS_API_KEY")
    limit_input,     \* text of the "Jumlah berita" field
    lang,            \* value of the "Bahasa Berita" select box
    provider,        \* what the news provider answers to the GET
    query,           \* the NewsQuery, once built
    articles,        \* the list fetch_crypto_news returned
    i,               \* index of the next article of `for art in articles[1:]`
    completion,      \* what the completion endpoint answered
    summary,         \* the value analyze_market returned
    exception,       \* the exception that ended the run, if any
    trace            \* requests sent and elements rendered, in order

vars == <<pc, OPENAI_API_KEY, NEWS_API_KEY, limit_input, lang, provider,
          query, articles, i, completion, summary, exception, trace>>

Unset == [k |-> "unset"]

\* ------------------------------------------------------------------------
\* Inputs
\* ------------------------------------------------------------------------
KeyValues == {JNull, JStr(<<>>), JStr(<<"key">>)}
Langs == {"English", "Chinese"}

Date3 == <<"2","0","2","4","-","0","2","-","2","9","T",
           "2","3",":","5","9",":","5","9">>

A1 == Article(JStr(<<"B","T","C">>), JStr(<<"u","p">>), JStr(Date3),
              Source(JStr(<<"S1">>)), JStr(<<"L1">>))
A2 == Article(Absent, JStr(<<"d","n">>), Absent, Absent, Absent)
A3 == Article(JStr(<<>>), Absent, JNull, Source(Absent), JNull)
X1 == JStr(<<"oops">>)
X2 == Article(JStr(<<"E","T","H">>), JStr(<<"x">>), JStr(MockDate2),
              JStr(<<"S2">>), JStr(<<"L2">>))
Elements == {A1, A2, A3, X1, X2}

Body(data) == [k |-> "dict", data |-> data]
Data(arts) == [k |-> "dict", articles |-> arts]
Answer(body) == [outcome |-> "body", body |-> body]
Failure(kind) == [outcome |-> kind]

ArticleLists(S, n) == { JList(xs) : xs \in SeqsUpTo(S, n) }

OddBodies ==
    {JNull, JStr(<<"x">>), JNum(0), JList(<<>>), JList(<<A1>>), EmptyDict,
     A1, Data(JList(<<A1>>))}
    \cup { Body(d) : d \in {Absent, JNull, JStr(<<"x">>), JNum(1),
                            JList(<<A1>>), EmptyDict} }
    \cup { Body(Data(a)) : a \in {Absent, JNull, JStr(<<"x">>), JNum(3),
                                  EmptyDict, Body(JList(<<A1>>))} }

MainProviders ==
    {Failure("transport_error"), Failure("json_error")}
    \cup { Answer(b) : b \in OddBodies }
    \cup { Answer(Body(Data(l))) : l \in ArticleLists(Elements, MaxArticles) }

MainTexts == {<<"1">>, <<"2">>, <<"3">>, <<"a","b","c">>}

LimitChars == {"0", "1", "5", "-", "+", " ", "_", "a"}
LimitTexts == SeqsUpTo(LimitChars, MaxTextLen)

Completions ==
    {[kind |-> "api_error"], [kind |-> "no_choices"], [kind |-> "null_content"]}
    \cup { [kind |-> "ok", content |-> c] :
             c \in {<<"Bullish">>, <<" ", "\n", "Hold", " ", "it", "\n", " ">>, <<>>} }

\* pubDate texts: every combination of the field spellings below, and a
\* few texts of another shape
YearTexts == {<<"2","0","2","5">>, <<"2","0","2","4">>, <<"0","0","0","0">>}
MonthTexts == {<<"1","1">>, <<"0","2">>, <<"1">>, <<"1","3">>}
DayTexts == {<<"1","3">>, <<"2","9">>, <<"3","0">>, <<"3">>, <<" ","3">>}
TTexts == {<<"T">>, <<"t">>}
HourTexts == {<<"1","2">>, <<"2","4">>, <<"7">>}
MinuteTexts == {<<"0","0">>, <<"5">>}
SecondTexts == {<<"0","0">>, <<"6","0">>, <<"7">>}
SuffixTexts == {<<>>, <<".","0","0","0","Z">>, <<"x">>}

DateTexts ==
    { y \o <<"-">> \o m \o <<"-">> \o d \o t \o h \o <<":">> \o mi
        \o <<":">> \o sec \o suf :
        y \in YearTexts, m \in MonthTexts, d \in DayTexts, t \in TTexts,
        h \in HourTexts, mi \in MinuteTexts, sec \in SecondTexts,
        suf \in SuffixTexts }

OtherDateTexts ==
    {<<>>, <<"a","b","c">>, <<"2","0","2","5","-","1","1","-","1","3">>,
     <<"2","0","2","5","-","1","1","-","1","3"," ","1","2",":","0","0",":","0","0">>,
     <<"2","0","a","5","-","1","1","-","1","3","T","1","2",":","0","0",":","0","0">>,
     <<"2","0","2","5","-","0","0","-","1","3","T","1","2",":","0","0",":","0","0">>,
     <<"2","0","2","5","-","1","1","-","0","0","T","1","2",":","0","0",":","0","0">>,
     <<"2","0","2","5","-","1","1","-","1","3","T","1","2",":","6","0",":","0","0">>,
     <<" ","2","0","2","5","-","1","1","-","1","3","T","1","2",":","0","0",":","0","0">>,
     MockDate1, MockDate2}

PubDates ==
    { JStr(t) : t \in DateTexts \cup OtherDateTexts }
    \cup {Absent, JNull, JNum(0), JNum(7), JList(<<JStr(MockDate1)>>)}

Dated(p) == Article(JStr(<<"N">>), JStr(<<"d">>), p, Source(JStr(<<"S">>)), Absent)

DateProviders ==
    { Answer(Body(Data(JList(<<Dated(p)>>)))) : p \in PubDates }
    \cup { Answer(Body(Data(JList(<<A1, Dated(p)>>)))) : p \in PubDates }

\* ------------------------------------------------------------------------
\* Init: the script starts with the environment, the widgets and the
\* provider in any of the enumerated states
\* ------------------------------------------------------------------------
Inputs ==
    \* every combination of keys
    { [o |-> o, n |-> n, t |-> <<"5">>, l |-> "English",
       p |-> Failure("transport_error")] : o \in KeyValues, n \in KeyValues }
    \* every provider answer, for several limits and both languages
    \cup { [o |-> JStr(<<"key">>), n |-> JStr(<<"key">>), t |-> t, l |-> l, p |-> p] :
             t \in MainTexts, l \in Langs, p \in MainProviders }
    \* every limit text
    \cup { [o |-> JStr(<<"key">>), n |-> JStr(<<"key">>), t |-> t, l |-> "English",
            p |-> Failure("json_error")] : t \in LimitTexts }
    \* every pubDate
    \cup { [o |-> JStr(<<"key">>), n |-> JStr(<<"key">>), t |-> <<"5">>,
            l |-> "Chinese", p |-> p] : p \in DateProviders }

Init ==
    /\ \E in \in Inputs :
         /\ OPENAI_API_KEY = in.o
         /\ NEWS_API_KEY = in.n
         /\ limit_input = in.t
         /\ lang = in.l
         /\ provider = in.p
    /\ pc = "config"
    /\ query = Unset
    /\ articles = <<>>
    /\ i = 0
    /\ completion = Unset
    /\ summary = Unset
    /\ exception = ""
    /\ trace = <<>>

\* ------------------------------------------------------------------------
\* Actions
\* ------------------------------------------------------------------------
\* KeysMissing with `and` in place of `or`
KeysBothMissing(openai, news) == ~Truthy(openai) /\ ~Truthy(news)

\* if not OPENAI_API_KEY or not NEWS_API_KEY
KeysMissing(openai, news) == ~Truthy(openai) \/ ~Truthy(news)

\* lines 36-47: st.error and st.stop() when a key is missing
CheckConfiguration ==
    /\ pc = "config"
    /\ IF KeysMissing(OPENAI_API_KEY, NEWS_API_KEY)
       THEN /\ trace' = Append(trace, [ev |-> "st.error", what |-> "config"])
            /\ pc' = "stopped"
       ELSE /\ trace' = trace
            /\ pc' = "input"
    /\ UNCHANGED <<OPENAI_API_KEY, NEWS_API_KEY, limit_input, lang, provider,
                   query, articles, i, completion, summary, exception>>

\* lines 335-342: parse the limit, build the NewsQuery
BuildQuery ==
    /\ pc = "input"
    /\ query' = NewsQuery(IF lang = "English" THEN "EN" ELSE "ZH",
                          ParseLimit(limit_input), 1)
    /\ pc' = "fetch"
    /\ UNCHANGED <<OPENAI_API_KEY, NEWS_API_KEY, limit_input, lang, provider,
                   articles, i, completion, summary, exception, trace>>

\* line 349: articles = fetch_crypto_news(query)
Fetch ==
    /\ pc = "fetch"
    /\ LET r == fetch_crypto_news(query, provider) IN
         /\ articles' = r.ret
         /\ trace' = trace \o <<GetRequest(query)>> \o r.ui
    /\ pc' = "display"
    /\ UNCHANGED <<OPENAI_API_KEY, NEWS_API_KEY, limit_input, lang, provider,
                   query, i, completion, summary, exception>>

Card(kind, art, date, unknown) ==
    [ev |-> "card", kind |-> kind,
     date |-> date,
     source |-> Get(Get(art, "source", EmptyDict), "name", JStr(<<unknown>>)),
     title |-> Get(art, "title", JStr(<<"Tanpa Judul">>)),
     desc |-> Get(art, "description", JStr(<<>>)),
     link |-> Get(art, "link", JStr(<<"#">>))]

\* art.get(...) on something that is not a dict, or
\* art.get('source', {}).get(...) on a source that is not a dict
RenderRaises(art) ==
    \/ ~IsDict(art)
    \/ ~IsDict(Get(art, "source", EmptyDict))

\* lines 351-369, 404-405: the top article, or the "no news" error
RenderTop ==
    /\ pc = "display"
    /\ IF articles = <<>>
       THEN /\ trace' = Append(trace, [ev |-> "st.error", what |-> "no_news"])
            /\ pc' = "done"
            /\ UNCHANGED <<i, exception>>
       ELSE LET top == articles[1] IN
            IF RenderRaises(top)
            THEN /\ pc' = "crashed"
                 /\ exception' = "AttributeError"
                 /\ UNCHANGED <<i, trace>>
            ELSE /\ trace' = Append(trace,
                        Card("top", top,
                             FormatTopDate(Get(top, "pubDate", JStr(<<>>))),
                             "Unknown"))
                 /\ i' = 2
                 /\ pc' = IF Len(articles) >= 2 THEN "others" ELSE "analysis"
                 /\ UNCHANGED exception
    /\ UNCHANGED <<OPENAI_API_KEY, NEWS_API_KEY, limit_input, lang, provider,
                   query, articles, completion, summary>>

\* lines 373-393: one iteration of `for art in articles[1:]`
RenderOther ==
    /\ pc = "others"
    /\ LET art == articles[i] IN
       IF RenderRaises(art)
       THEN /\ pc' = "crashed"
            /\ exception' = "AttributeError"
            /\ UNCHANGED <<i, trace>>
       ELSE /\ trace' = Append(trace,
                   Card("other", art,
                        FormatOtherDate(Get(art, "pubDate", JStr(<<>>))),
                        "Unknown Source"))
            /\ i' = i + 1
            /\ pc' = IF i < Len(articles) THEN "others" ELSE "analysis"
            /\ UNCHANGED exception
    /\ UNCHANGED <<OPENAI_API_KEY, NEWS_API_KEY, limit_input, lang, provider,
                   query, articles, completion, summary>>

\* lines 400-403: summary = analyze_market(articles); st.success(summary)
Analyze ==
    /\ pc = "analysis"
    /\ \E comp \in Completions :
         LET r == analyze_market(articles, comp) IN
         /\ completion' = comp
         /\ IF r.raised
            THEN /\ pc' = "crashed"
                 /\ exception' = r.exc
                 /\ summary' = summary
                 /\ trace' = trace \o r.sent
            ELSE /\ pc' = "done"
                 /\ exception' = exception
                 /\ summary' = JStr(r.value)
                 /\ trace' = trace \o r.sent
                               \o <<[ev |-> "st.success", text |-> r.value]>>
    /\ UNCHANGED <<OPENAI_API_KEY, NEWS_API_KEY, limit_input, lang, provider,
                   query, articles, i>>

Next ==
    \/ CheckConfiguration
    \/ BuildQuery
    \/ Fetch
    \/ RenderTop
    \/ RenderOther
    \/ Analyze

Spec == Init /\ [][Next]_vars

\* ------------------------------------------------------------------------
\* Properties
\* ------------------------------------------------------------------------
\* fetch_crypto_news has returned
Fetched == pc \in {"display", "others", "analysis", "done", "crashed"}

Events(kind) == { n \in DOMAIN trace : trace[n].ev = kind }

\* the provider answered with a body that has no usable article list
NoArticleList(p) ==
    /\ p.outcome = "body"
    /\ \/ p.body.k # "dict"
       \/ "data" \notin DictKeys(p.body)
       \/ p.body.data.k # "dict"
       \/ "articles" \notin DictKeys(p.body.data)
       \/ p.body.data.articles.k # "list"
       \/ p.body.data.articles.items = <<>>

\* the provider answered with a body whose data.articles is a non-empty list
HasArticleList(p) ==
    /\ p.outcome = "body"
    /\ p.body.k = "dict"
    /\ "data" \in DictKeys(p.body)
    /\ p.body.data.k = "dict"
    /\ "articles" \in DictKeys(p.body.data)
    /\ p.body.data.articles.k = "list"
    /\ p.body.data.articles.items # <<>>

ProviderList == provider.body.data.articles.items

\* C1: when the GET raises, the body does not decode, the body is not a
\* mapping, has no `data` mapping, has no `articles` list or has an empty
\* one, fetch_crypto_news raises nothing and returns the two mock articles
\* ("Bitcoin Reaches New High", "Ethereum Merge Update"), whatever the limit.
C1_FallbackIsMockList ==
    (Fetched /\ (provider.outcome \in {"transport_error", "json_error"}
                 \/ NoArticleList(provider)))
    => /\ Len(articles) = 2
       /\ articles[1].title = JStr(<<"Bitcoin Reaches New High">>)
       /\ articles[2].title = JStr(<<"Ethereum Merge Update">>)
       /\ articles = get_mock_articles
       /\ Events("st.error") \cup Events("st.warning") # {}
       /\ (pc = "crashed" => completion # Unset)

C1_Witness ==
    /\ pc = "display"
    /\ NoArticleList(provider)
    /\ provider.body.k = "dict"
    /\ query.limit = 1
    /\ Len(articles) = 2

\* C2: when the body's data.articles is a non-empty list L, the result is
\* the first min(limit, len(L)) elements of L, in the provider's order.
C2_LiveDataIsPrefix ==
    (Fetched /\ HasArticleList(provider))
    => /\ Len(articles) = Min(query.limit, Len(ProviderList))
       /\ \A n \in 1..Len(articles) : articles[n] = ProviderList[n]

C2_Witness ==
    /\ pc = "display"
    /\ HasArticleList(provider)
    /\ Len(ProviderList) = 3
    /\ ProviderList[1] # ProviderList[3]
    /\ query.limit = 2
    /\ Len(articles) = 2

\* C3 as stated: every list fetch_crypto_news returns has at most `limit`
\* elements, live data or fallback.
C3_LengthAtMostLimit ==
    Fetched => Len(articles) <= query.limit

\* C3 as amended: the list has at most `limit` elements, except that the
\* fallback returns both mock articles also when the limit is 1.
C3_LengthAtMostLimitOrMock ==
    Fetched => \/ Len(articles) <= query.limit
               \/ /\ query.limit = 1
                  /\ ~HasArticleList(provider)
                  /\ Len(articles) = 2

C3_Witness ==
    /\ pc = "display"
    /\ query.limit = 1
    /\ provider.outcome = "transport_error"
    /\ Len(articles) = 2

\* the value of a sequence of decimal digits
RECURSIVE DigitsValue(_)
DigitsValue(ds) ==
    IF ds = <<>> THEN 0
    ELSE DigitVal[Head(ds)] * 10 ^ (Len(ds) - 1) + DigitsValue(Tail(ds))

AllDigits(t) == t # <<>> /\ \A n \in 1..Len(t) : t[n] \in Digits

\* C4: the limit of the NewsQuery is n when the text is the numeral of an
\* integer n >= 1, and 5 when the text is not a number or is the numeral of
\* an integer below 1; it is always an integer >= 1.
C4_EffectiveLimit ==
    (query # Unset)
    => /\ query.limit \in Nat
       /\ query.limit >= 1
       /\ (AllDigits(limit_input) /\ DigitsValue(limit_input) >= 1)
            => query.limit = DigitsValue(limit_input)
       /\ (AllDigits(limit_input) /\ DigitsValue(limit_input) = 0)
            => query.limit = 5
       /\ (limit_input # <<>> /\ Head(limit_input) = "-"
             /\ AllDigits(Tail(limit_input)))
            => query.limit = 5
       /\ (\E n \in 1..Len(limit_input) :
              limit_input[n] \notin Digits \cup {"+", "-", " ", "_"})
            => query.limit = 5
       /\ limit_input = <<>> => query.limit = 5
       /\ query.limit # 5
            => /\ \A n \in 1..Len(limit_input) :
                    limit_input[n] \in Digits \cup {"+", " ", "_"}
               /\ DigitsValue(SelectSeq(limit_input, LAMBDA c : c \in Digits))
                    = query.limit

C4_Witness ==
    /\ pc = "fetch"
    /\ limit_input = <<"0">>
    /\ query.limit = 5

\* C5: when a key is unset or empty the run reports the configuration error
\* and stops, and sends neither the news GET nor the completion request; a
\* request is sent only when both keys are set.
C5_NoRequestWithoutKeys ==
    LET absent(key) == key = JNull \/ key = JStr(<<>>)
        missing == absent(OPENAI_API_KEY) \/ absent(NEWS_API_KEY)
        requests == Events("GET") \cup Events("POST")
    IN /\ missing => /\ pc \in {"config", "stopped"}
                     /\ requests = {}
                     /\ pc = "stopped" =>
                          trace = <<[ev |-> "st.error", what |-> "config"]>>
       /\ requests # {} => ~missing
       /\ pc = "stopped" => missing

C5_Witness ==
    /\ pc = "stopped"
    /\ OPENAI_API_KEY = JStr(<<"key">>)
    /\ NEWS_API_KEY = JStr(<<>>)

\* C6: when the completion call fails, the failure ends the run: no summary
\* is produced or rendered and none is substituted; a failure of the news
\* call, by contrast, is recovered by the mock list and the run goes on.
C6_SummarizeFailurePropagates ==
    /\ (completion # Unset /\ completion.kind # "ok")
         => /\ pc = "crashed"
            /\ exception # ""
            /\ summary = Unset
            /\ Events("st.success") = {}
    /\ (Fetched /\ provider.outcome # "body" /\ completion = Unset)
         => /\ exception = ""
            /\ articles # <<>>
            /\ trace[2] = [ev |-> "st.error", what |-> "fetch"]

C6_Witness ==
    /\ completion = [kind |-> "api_error"]
    /\ pc = "crashed"
    /\ provider.outcome = "transport_error"

\* text occurs in `text` at position p
OccursAt(piece, text, p) ==
    /\ p + Len(piece) - 1 <= Len(text)
    /\ \A n \in 1..Len(piece) : text[p + n - 1] = piece[n]

\* the pieces occur in `text` from position `from` on, one after the other
\* without overlap
RECURSIVE ContainsInOrder(_, _, _)
ContainsInOrder(pieces, text, from) ==
    IF pieces = <<>> THEN TRUE
    ELSE \E p \in from..(Len(text) + 1) :
            /\ OccursAt(Head(pieces), text, p)
            /\ ContainsInOrder(Tail(pieces), text, p + Len(Head(pieces)))

\* the title and the description of a mapping, the empty text when missing
TextOf(art, key) ==
    IF key \in DictKeys(art) /\ art[key].k = "str" THEN art[key].s ELSE <<>>

RECURSIVE TitlesAndDescriptions(_)
TitlesAndDescriptions(arts) ==
    IF arts = <<>> THEN <<>>
    ELSE <<TextOf(Head(arts), "title"), TextOf(Head(arts), "description")>>
         \o TitlesAndDescriptions(Tail(arts))

\* C7: analyze_market sends exactly one completion request, with exactly one
\* message, of role user, whose prompt contains the title and then the
\* description of every article, in list order.
C7_OnePromptWithEveryArticle ==
    /\ Cardinality(Events("POST")) <= 1
    /\ completion # Unset => Cardinality(Events("POST")) = 1
    /\ \A n \in Events("POST") :
         /\ Len(trace[n].messages) = 1
         /\ trace[n].messages[1].role = "user"
         /\ ContainsInOrder(TitlesAndDescriptions(articles),
                            trace[n].messages[1].content, 1)

C7_Witness ==
    /\ Events("POST") # {}
    /\ Len(articles) = 3
    /\ articles[1] = A1
    /\ articles[2] = A2
    /\ articles[3] = A1

\* the body has the shape { data: { articles: [ {.., source: {..}}, .. ] } }
ExpectedShape(p) ==
    /\ HasArticleList(p)
    /\ \A n \in 1..Len(p.body.data.articles.items) :
         LET art == p.body.data.articles.items[n] IN
         /\ art.k = "dict"
         /\ "source" \in DictKeys(art) => art.source.k = "dict"

\* C8 as stated: a body of any other shape is treated as "no data":
\* fetch_crypto_news returns the mock list, and no malformed article reaches
\* the renderer or the summarizer.
C8_DeviationIsNoData ==
    (Fetched /\ provider.outcome = "body" /\ ~ExpectedShape(provider))
    => /\ articles = get_mock_articles
       /\ ~(pc = "crashed" /\ completion = Unset)

\* the cards rendered so far, in order: card n shows article n
Cards == SelectSeq(trace, LAMBDA e : e.ev = "card")

\* a field of one or two digits (for the day, also a space and a digit)
\* whose value lies in lo..hi
IsField(f, lo, hi, spaceOk) ==
    \/ /\ AllDigits(f)
       /\ Len(f) \in {1, 2}
       /\ DigitsValue(f) \in lo..hi
    \/ /\ spaceOk
       /\ Len(f) = 2
       /\ f[1] = " "
       /\ f[2] \in Digits
       /\ DigitVal[f[2]] \in lo..hi

FieldValue(f) == IF f[1] = " " THEN DigitVal[f[2]] ELSE DigitsValue(f)

\* t is  YYYY-M-DTH:M:S  with fields of the lengths ls and a valid date
IsDateTime(t, ls) ==
    LET mStart == 6
        dStart == mStart + ls[1] + 1
        hStart == dStart + ls[2] + 1
        miStart == hStart + ls[3] + 1
        sStart == miStart + ls[4] + 1
        y == SubSeq(t, 1, 4)
        m == SubSeq(t, mStart, dStart - 2)
        d == SubSeq(t, dStart, hStart - 2)
    IN /\ Len(t) = sStart + ls[5] - 1
       /\ AllDigits(y) /\ DigitsValue(y) >= 1
       /\ t[5] = "-"
       /\ IsField(m, 1, 12, FALSE)
       /\ t[dStart - 1] = "-"
       /\ IsField(d, 1, 31, TRUE)
       /\ FieldValue(d) <= DaysInMonth(DigitsValue(y), FieldValue(m))
       /\ t[hStart - 1] \in {"T", "t"}
       /\ IsField(SubSeq(t, hStart, miStart - 2), 0, 23, FALSE)
       /\ t[miStart - 1] = ":"
       /\ IsField(SubSeq(t, miStart, sStart - 2), 0, 59, FALSE)
       /\ t[sStart - 1] = ":"
       /\ IsField(SubSeq(t, sStart, Len(t)), 0, 59, FALSE)

FieldLengths == [1..5 -> {1, 2}]

TwoDigits(v) == <<DigitChar(v \div 10), DigitChar(v % 10)>>

\* DD Mon YYYY, HH:MM
Rendering(t, ls) ==
    LET dStart == 6 + ls[1] + 1
        hStart == dStart + ls[2] + 1
        miStart == hStart + ls[3] + 1
        sStart == miStart + ls[4] + 1
    IN TwoDigits(FieldValue(SubSeq(t, dStart, hStart - 2))) \o <<" ">>
       \o MonthAbbr[FieldValue(SubSeq(t, 6, dStart - 2))] \o <<" ">>
       \o SubSeq(t, 1, 4) \o <<",", " ">>
       \o TwoDigits(FieldValue(SubSeq(t, hStart, miStart - 2))) \o <<":">>
       \o TwoDigits(FieldValue(SubSeq(t, miStart, sStart - 2)))

\* what the card of an article with this raw pubDate must show
ExpectedDate(raw) ==
    IF raw.k # "str" THEN raw
    ELSE LET t == [n \in 1..Min(19, Len(raw.s)) |-> raw.s[n]] IN
         IF \E ls \in FieldLengths : IsDateTime(t, ls)
         THEN JStr(Rendering(t, CHOOSE ls \in FieldLengths : IsDateTime(t, ls)))
         ELSE raw

Nov13 == <<"1","3"," ","N","o","v"," ","2","0","2","5",","," ","1","2",":","0","0">>

\* C9: the date a card shows is the `DD Mon YYYY, HH:MM` rendering of the raw
\* pubDate when its first 19 characters are a date-time, the raw value
\* otherwise and the empty string when there is none; formatting never ends
\* the run; the top card and the other cards follow the same rule.
C9_ShownDate ==
    /\ \A n \in 1..Len(Cards) :
         /\ Cards[n].kind = IF n = 1 THEN "top" ELSE "other"
         /\ Cards[n].date =
              IF "pubDate" \in DictKeys(articles[n])
              THEN ExpectedDate(articles[n].pubDate)
              ELSE JStr(<<>>)
         /\ ("pubDate" \in DictKeys(articles[n])
               /\ articles[n].pubDate = JStr(MockDate1))
              => Cards[n].date = JStr(Nov13)
    /\ pc \in {"analysis", "done"} => Len(Cards) = Len(articles)
    /\ (pc = "crashed" /\ completion = Unset)
         => \/ articles[Len(Cards) + 1].k # "dict"
            \/ articles[Len(Cards) + 1].source.k \notin {"dict", "absent"}

C9_Witness ==
    /\ Len(Cards) = 2
    /\ articles[1].pubDate = JStr(Date3)
    /\ articles[2].pubDate = JStr(MockDate1)
    /\ Cards[2].date = JStr(Nov13)
    /\ Cards[1].date # articles[1].pubDate

Rank(e) ==
    CASE e.ev = "GET" -> 1
      [] e.ev \in {"st.error", "st.warning"} -> 2
      [] e.ev = "card" -> 3
      [] e.ev = "POST" -> 4
      [] e.ev = "st.success" -> 5

\* C10: in a run that passes the configuration check there is exactly one
\* GET, after the query is built and before anything is rendered; then the
\* cards; then at most one completion request; then the summary.  The
\* completion request is made only after every article of the fetched list
\* has been rendered, for that same list, which is never empty: the "no
\* news" branch is never taken.
C10_LinearFlow ==
    /\ \A a, b \in DOMAIN trace : a < b => Rank(trace[a]) <= Rank(trace[b])
    /\ Cardinality(Events("GET")) = IF Fetched THEN 1 ELSE 0
    /\ Cardinality(Events("POST")) <= 1
    /\ Cardinality(Events("st.success")) <= Cardinality(Events("POST"))
    /\ Fetched => /\ query # Unset
                  /\ trace[1].ev = "GET"
                  /\ trace[1].params.items = query.limit
                  /\ articles # <<>>
    /\ \A n \in DOMAIN trace :
         ~(trace[n].ev = "st.error" /\ trace[n].what = "no_news")
    /\ Events("POST") # {}
         => /\ Len(Cards) = Len(articles)
            /\ \A n \in 1..Len(articles) :
                 /\ articles[n].k = "dict"
                 /\ Cards[n].title = Get(articles[n], "title", JStr(<<"Tanpa Judul">>))
                 /\ Cards[n].desc = Get(articles[n], "description", JStr(<<>>))
            /\ \A n \in Events("POST") :
                 ContainsInOrder(<<PromptHead>> \o TitlesAndDescriptions(articles)
                                   \o <<PromptTail>>,
                                 trace[n].messages[1].content, 1)
    /\ pc = "done" => /\ trace[Len(trace)].ev = "st.success"
                      /\ trace[Len(trace) - 1].ev = "POST"

C10_Witness ==
    /\ pc = "done"
    /\ Len(articles) = 3
    /\ Len(Cards) = 3
    /\ Events("st.success") # {}
    /\ HasArticleList(provider)

====
